---- MODULE Spec2Model ----
(***************************************************************************)
(* Model of the NeoPixel animation engine of wyoming-satellite:            *)
(*   wyoming_satellite/neopixel_ring.py  (NeoPixelRing)                    *)
(*   examples/neopixel_service.py        (LEDsEventHandler)                *)
(*   examples-jlc/wyoming_neopixel_lib.py    (WyomingNeoPixelLEDs)         *)
(*   examples-jlc/wyoming_neopixel_server.py (LEDsEventHandler)            *)
(* One caller thread drives the public API; every started effect runs in   *)
(* a thread of its own (runner).  A colour is a triple <<r, g, b>>.         *)
(***************************************************************************)
EXTENDS Integers, Sequences, FiniteSets, TLC

\* ------------------------------------------------------------------ bounds
\* number of pixels of the ring (pixel_count)
PixelCount == 2
\* number of thread objects that may exist at the same time (a slot is
\* taken again once its thread has exited and nothing refers to it)
MaxThreads == 2
\* largest finite duration, counted in frame intervals
MaxDur == 1
\* number of frames an effect without a duration may produce
MaxStep == 2

\* ------------------------------------------------------------- constants
DefaultPrimary == 33023
DefaultSecondary == 31287
Red == 16711680
PulseCycle == 40

None == 0
NoDuration == -1
Caller == 0
Free == -1
Tids == 1..MaxThreads
Durations == (0..MaxDur) \cup {NoDuration}
Black == <<0, 0, 0>>

\* -------------------------------------------------- colour specifications
\* A colour specification as the caller passes it: an int, a sequence of
\* ints, or a value of another type.
IntSpec(v) == [kind |-> "int", val |-> v, seq |-> <<>>]
SeqSpec(s) == [kind |-> "seq", val |-> 0, seq |-> s]
OtherSpec == [kind |-> "other", val |-> 0, seq |-> <<>>]

\* _int_to_rgb
IntToRgb(value) ==
    << (value \div 65536) % 256, (value \div 256) % 256, value % 256 >>

\* _ensure_rgb: the normalised colour, or the fault it raises
EnsureRgb(value) ==
    IF value.kind = "seq"
    THEN IF Len(value.seq) # 3
         THEN [err |-> "ValueError", rgb |-> Black]
         ELSE [err |-> "none", rgb |-> <<value.seq[1], value.seq[2], value.seq[3]>>]
    ELSE IF value.kind = "int"
         THEN [err |-> "none", rgb |-> IntToRgb(value.val)]
         ELSE [err |-> "TypeError", rgb |-> Black]

\* Palette
Palette(primary, secondary) == [primary |-> primary, secondary |-> secondary]
DefaultPalette == Palette(IntToRgb(DefaultPrimary), IntToRgb(DefaultSecondary))

\* ------------------------------------------------------- frame generators
Min(a, b) == IF a < b THEN a ELSE b
Abs(a) == IF a < 0 THEN -a ELSE a

RECURSIVE Pow2(_)
Pow2(k) == IF k <= 0 THEN 1 ELSE 2 * Pow2(k - 1)

\* A float factor in [0, 1] as the code computes it in binary64: the double
\* nearest to the quotient num/den lies rho / (den * 2^(52 + a)) below it,
\* where 2^-a <= num/den < 2^(1-a) (rho < 0: above it; rho = 0: exact)
Factor(num, den, rho) == [num |-> num, den |-> den, rho |-> rho]

\* the a of a factor: the binade [2^-a, 2^(1-a)) its value lies in
RECURSIVE BinadeFrom(_, _, _)
BinadeFrom(num, den, a) ==
    IF num * Pow2(a) >= den THEN a ELSE BinadeFrom(num, den, a + 1)

\* the j with 2^j < m <= 2^(j+1), for an integer m >= 1
RECURSIVE BelowFrom(_, _)
BelowFrom(m, j) == IF m <= Pow2(j + 1) THEN j ELSE BelowFrom(m, j + 1)

\* int(c * factor) of _scale_color: the product is rounded to binary64 and
\* int() truncates towards zero. The quotient c * num / den is met by the
\* truncation of the exact product unless that product is an integer m and
\* the factor lies below num/den by more than half a unit in the last place
\* of the doubles under m: then the product stays under m and int() gives m - 1
ScaleChannel(c, factor) ==
    LET p == Abs(c) * factor.num
        m == p \div factor.den
        under == /\ factor.rho > 0
                 /\ m >= 1
                 /\ p % factor.den = 0
                 /\ 2 * Abs(c) * factor.rho >
                       factor.den * Pow2(BelowFrom(m, -1) + BinadeFrom(factor.num, factor.den, 0))
        r == IF under THEN m - 1 ELSE m
    IN  IF c < 0 THEN -r ELSE r

\* _scale_color
ScaleColor(color, factor) ==
    << ScaleChannel(color[1], factor), ScaleChannel(color[2], factor),
       ScaleChannel(color[3], factor) >>

\* [color] * pixel_count for a ring of n pixels
SolidOf(n, color) == [i \in 1..n |-> color]

\* [color] * self._pixel_count
Solid(color) == SolidOf(PixelCount, color)

\* variant: the wake-up animation cycles after pixel_count steps
WakeupFrameShortCycle(n, step, pal) ==
    LET lit == Min(step % n, n)
    IN  [i \in 1..n |-> IF i - 1 < lit THEN pal.primary ELSE Black]

\* _wakeup_frame on a ring of n pixels; pixel index i of the code is
\* position i + 1 here
WakeupFrameOf(n, step, pal) ==
    LET progress == step % (n * 2)
        lit == Min(progress, n)
    IN  [i \in 1..n |-> IF i - 1 < lit THEN pal.primary ELSE Black]

\* _wakeup_frame
WakeupFrame(step, pal) == WakeupFrameOf(PixelCount, step, pal)

\* _think_frame: fade = max(0, 1 - distance / (N / 2)), scaled by fade * 0.5.
\* On rings of up to 4 pixels the rounding of the factor changes no
\* truncated channel (the factor is exact but for N = 3, distance 1, where
\* it lies above 1/6)
ThinkFrame(step, pal) ==
    LET offset == step % PixelCount
    IN  [i \in 1..PixelCount |->
            LET distance == ((i - 1) - offset) % PixelCount
            IN  IF PixelCount - 2 * distance > 0
                THEN ScaleColor(pal.secondary,
                                Factor(PixelCount - 2 * distance, 2 * PixelCount, 0))
                ELSE ScaleColor(pal.secondary, Factor(0, 1, 0))]

\* variant: the spinner runs one pixel ahead
SpinFrameAhead(n, step, pal) ==
    LET position == (step + 1) % n
    IN  [i \in 1..n |-> IF i - 1 = position THEN pal.primary ELSE Black]

\* _spin_frame on a ring of n pixels
SpinFrameOf(n, step, pal) ==
    LET position == step % n
    IN  [i \in 1..n |-> IF i - 1 = position THEN pal.primary ELSE Black]

\* _spin_frame
SpinFrame(step, pal) == SpinFrameOf(PixelCount, step, pal)

\* the rho of the level of each phase 0..39, in 1 / (20 * 2^(52 + a)): the
\* binary64 results of phase / 20.0 (line 224) and of 1 - (phase - 20.0) / 20.0
\* (line 226)
PulseRho ==
    << 0, -8, -8, 4, -8, 0, 4, 8, -8, -4, 0, -8, 4, -4, 8, 0, -8, 4, -4, 8,
       0, 8, -4, 4, -8, 0, 8, -4, 4, -8, 0, 16, -8, 8, -16, 0, 32, -16, 32, -128 >>

\* _pulse_frame, lines 223-226: the level of a phase
PulseLevel(phase) ==
    LET half == PulseCycle \div 2
    IN  Factor(IF phase < half THEN phase ELSE half - (phase - half), half,
               PulseRho[phase + 1])

\* _pulse_frame on a ring of n pixels
PulseFrameOf(n, step, color) ==
    SolidOf(n, ScaleColor(color, PulseLevel(step % PulseCycle)))

\* _pulse_frame
PulseFrame(step, color) == PulseFrameOf(PixelCount, step, color)

\* the frame generator handed to _start_effect, applied to a step: the bound
\* methods read self._palette at every call, the pulse lambda its captured rgb
FrameGenerator(gen, step, pal, rgb) ==
    CASE gen = "wakeup" -> WakeupFrame(step, pal)
      [] gen = "think" -> ThinkFrame(step, pal)
      [] gen = "spin" -> SpinFrame(step, pal)
      [] gen = "pulse" -> PulseFrame(step, rgb)

\* ------------------------------------------------------------------ state
VARIABLES
    palette,       \* self._palette
    effectThread,  \* self._effect_thread: None or a thread id
    stopEvent,     \* self._stop_event: TRUE when set
    lock,          \* self._lock: Free, or its holder (Caller or a thread id)
    pixels,        \* self._pixels: the buffer written by pixels[index] = color
    shown,         \* what the last pixels.show() flushed to the ring
    released,      \* TRUE once pixels.deinit() has been called
    threads,       \* the runner threads created by _start_effect
    order,         \* the threads in existence, in the order of their creation
    cpc,           \* where the caller is inside the public operation
    cop,           \* the public operation in progress (at idle: the last one)
    carg,          \* its colour arguments, as passed
    cdur,          \* its duration argument
    crgb,          \* the colour pulse() validated (rgb)
    ccolors,       \* the colours the caller is applying in _apply_colors
    cidx,          \* the caller's index in the loop of _apply_colors
    cres,          \* "none" while in progress, then "ok" or the fault raised
    prevOff,       \* TRUE when the operation completed before cop was off()
    pre,           \* the engine's state when cop was called
    flushed,       \* the threads that have flushed at least one frame
    lastFlusher,   \* who made the last flush (Caller or a thread id)
    evType,        \* the event handle_event is handling (or handled last)
    evQueue,       \* the ring calls handle_event has still to make
    evCalls,       \* number of ring calls made for evType
    evRet,         \* what handle_event returned: "True", "raised" or "pending"
    mpc,           \* where main() of neopixel_service.py is, after line 113
    fArgs,         \* the function applied last on its own, and its arguments
    fRes,          \* what it returned: a frame, or a colour or the fault raised
    ledPc,         \* where the caller is inside WyomingNeoPixelLEDs ("new": not built)
    ledOp,         \* the effect method in progress (at idle: the last one)
    ledRes,        \* "none" while in progress, then "ok" or the fault raised
    ledPixels,     \* TRUE when self.pixels is a strip, FALSE when it is None
    animationThread, \* self._animation_thread: None or a thread id
    stopAnimation, \* self._stop_animation
    warned,        \* TRUE once a warning has been logged
    anims,         \* the animation threads
    strip,         \* the buffer of self.pixels (<< >> without pixels)
    stripShown,    \* what the last pixels.show() sent to the strip
    lastShow,      \* who called that pixels.show()
    pending,       \* number of _async_neopixel_fill tasks waiting on the event loop
    ledEvType,     \* the event the jlc handle_event is handling (or handled last)
    ledEvCalls,    \* the effect methods it called for ledEvType
    ledRet         \* what it returned: "True", "raised" or "pending"

engineVars == <<palette, effectThread, stopEvent, lock, pixels, shown, released>>
callerVars == <<cpc, cop, carg, cdur, crgb, ccolors, cidx, cres, prevOff, pre>>
histVars == <<flushed, lastFlusher>>
evVars == <<evType, evQueue, evCalls, evRet>>
mainVars == <<mpc>>
fnVars == <<fArgs, fRes>>
ledCtl == <<ledPc, ledOp, ledRes, ledPixels, animationThread, stopAnimation, warned>>
ledOut == <<strip, stripShown, lastShow>>
ledEv == <<ledEvType, ledEvCalls, ledRet>>
ledVars == <<ledCtl, anims, ledOut, pending, ledEv>>
\* everything outside the ring
outerVars == <<evVars, mainVars, fnVars, ledVars>>
\* everything outside the event router, and outside main
exceptRouter == <<mainVars, fnVars, ledVars>>
exceptMain == <<evVars, fnVars, ledVars>>
ringVars == <<engineVars, threads, order, callerVars, histVars>>
\* everything outside WyomingNeoPixelLEDs and its event router
exceptLed == <<ringVars, evVars, mainVars, fnVars>>
vars == <<engineVars, threads, order, callerVars, histVars, evVars, mainVars, fnVars, ledVars>>

StartOps == {"wakeup", "think", "spin", "pulse"}
FillOps == {"speak", "mono", "off", "deinit"}

\* no function has been applied on its own yet
NoArgs == [fn |-> "none", n |-> 0, step |-> 0, pal |-> DefaultPalette, value |-> OtherSpec]
NoResult == [frame |-> <<>>, err |-> "none", rgb |-> Black]

\* a thread that has not been created yet
Unborn ==
    [pc |-> "unborn", gen |-> "none", rgb |-> Black, dur |-> NoDuration,
     elapsed |-> 0, step |-> 0, colors |-> <<>>, idx |-> 0, final |-> FALSE,
     pal0 |-> DefaultPalette]

\* a thread that has exited: its locals are gone
Exited == [Unborn EXCEPT !.pc = "done"]

\* Thread.is_alive()
IsAlive(t) == threads[t].pc \notin {"unborn", "done"}

\* the engine's fields a public operation may replace, as one value
Engine ==
    [eff |-> effectThread, pal |-> palette, stop |-> stopEvent,
     run |-> effectThread # None /\ IsAlive(effectThread)]

\* ---------------- WyomingNeoPixelLEDs of examples-jlc/wyoming_neopixel_lib.py
\* and the event router of examples-jlc/wyoming_neopixel_server.py
\* number of LEDs of the strip (led_count)
LedCount == 3
\* number of animation thread objects that may exist at the same time
MaxAnims == 2
\* number of frames after which an animation thread only goes on when it is
\* asked to stop
MaxAnimStep == 2
\* number of deferred fills that may be pending on the event loop
MaxPending == 1

COLOR_OFF == <<0, 0, 0>>
COLOR_WAKEUP == <<255, 255, 255>>
COLOR_LISTENING == <<0, 0, 255>>
COLOR_THINKING == <<128, 0, 128>>
COLOR_SPEAKING == <<0, 255, 0>>
COLOR_DISCONNECTED == <<255, 0, 0>>

\* tail = 3 of _listen_animation_thread
TailLength == 3
\* the step of brightness_level, and its largest value
LevelStep == 5
LevelMax == 255

AnimIds == 1..MaxAnims
LedOps == {"off", "wakeup", "listen", "think", "speak", "disconnected", "cleanup"}
AnimOps == {"listen", "think"}

\* pixels.fill(color)
LedFill(color) == [i \in 1..LedCount |-> color]

\* the colour a solid effect fills the strip with
LedColor(op) ==
    CASE op = "wakeup" -> COLOR_WAKEUP
      [] op = "speak" -> COLOR_SPEAKING
      [] op = "disconnected" -> COLOR_DISCONNECTED
      [] OTHER -> COLOR_OFF

\* fade_factor = (tail - i) / tail in binary64: 3/3 is exact, the doubles of
\* 2/3 and 1/3 lie below the quotients
FadeFactor(i) ==
    Factor(TailLength - i, TailLength, IF i = 0 THEN 0 ELSE 1)

\* the colour of tail pixel i, lines 181-185
FadeColor(i) ==
    << ScaleChannel(COLOR_LISTENING[1], FadeFactor(i)),
       ScaleChannel(COLOR_LISTENING[2], FadeFactor(i)),
       ScaleChannel(COLOR_LISTENING[3], FadeFactor(i)) >>

\* the loop of lines 176-186 from tail pixel i on: pixel index k of the code
\* is position k + 1 here
RECURSIVE DrawTail(_, _, _)
DrawTail(frame, head, i) ==
    IF i >= TailLength
    THEN frame
    ELSE DrawTail([frame EXCEPT ![((head - i + LedCount) % LedCount) + 1] = FadeColor(i)],
                  head, i + 1)

\* one frame of _listen_animation_thread, lines 173-186
ListenFrame(head) == DrawTail(LedFill(COLOR_OFF), head, 0)

\* head after a number of passes of the loop: it starts at 0 and line 192
\* moves it by one, modulo led_count
HeadAt(step) == step % LedCount

\* pulsing_color, lines 214-223: min(brightness_level / 255.0, brightness)
\* with the default brightness 0.5; the channels are 128 and 0, and a
\* product by 128 is exact in binary64
ThinkColor(level) ==
    LET current == IF 2 * level >= LevelMax
                   THEN Factor(1, 2, 0)
                   ELSE Factor(level, LevelMax, 0)
    IN  << ScaleChannel(COLOR_THINKING[1], current),
           ScaleChannel(COLOR_THINKING[2], current),
           ScaleChannel(COLOR_THINKING[3], current) >>

\* lines 229-235: the next brightness level and direction
NextLevel(level, direction) ==
    LET l == level + direction * LevelStep
    IN  IF l >= LevelMax THEN [level |-> LevelMax, direction |-> -1]
        ELSE IF l <= 0 THEN [level |-> 0, direction |-> 1]
        ELSE [level |-> l, direction |-> direction]

\* brightness_level and direction after a number of passes of the loop:
\* they start at 0 and 1 (lines 205-206)
RECURSIVE LevelAt(_)
LevelAt(step) ==
    IF step = 0
    THEN [level |-> 0, direction |-> 1]
    ELSE NextLevel(LevelAt(step - 1).level, LevelAt(step - 1).direction)

\* an animation thread that has not been created, and one that has exited;
\* step counts the passes of its loop, up to MaxAnimStep
NoAnim == [pc |-> "unborn", kind |-> "none", step |-> 0]
AnimDone == [NoAnim EXCEPT !.pc = "done"]

\* threading.Thread(target=...) of lines 122 and 131, started
NewAnim(kind) == [NoAnim EXCEPT !.pc = "while", !.kind = kind]

\* Thread.is_alive()
AnimAlive(t) == anims[t].pc \notin {"unborn", "done"}

\* the thread objects a new animation may take
FreeAnims == {t \in AnimIds : ~AnimAlive(t) /\ t # animationThread}

\* who flushed the strip last
Origin(by, op) == [by |-> by, op |-> op]

\* NeoPixelRing.__init__; the LED controller of examples-jlc is not built yet
Init ==
    /\ palette = DefaultPalette
    /\ effectThread = None
    /\ stopEvent = FALSE
    /\ lock = Free
    /\ pixels = Solid(Black)
    /\ shown = Solid(Black)
    /\ released = FALSE
    /\ threads = [t \in Tids |-> Unborn]
    /\ order = <<>>
    /\ cpc = "idle"
    /\ cop = "init"
    /\ carg = <<>>
    /\ cdur = NoDuration
    /\ crgb = Black
    /\ ccolors = <<>>
    /\ cidx = 0
    /\ cres = "ok"
    /\ prevOff = FALSE
    /\ pre = Engine
    /\ flushed = {}
    /\ lastFlusher = Caller
    /\ evType = "none"
    /\ evQueue = <<>>
    /\ evCalls = 0
    /\ evRet = "True"
    /\ mpc = "palette"
    /\ fArgs = NoArgs
    /\ fRes = NoResult
    /\ ledPc = "new"
    /\ ledOp = "none"
    /\ ledRes = "ok"
    /\ ledPixels = FALSE
    /\ animationThread = None
    /\ stopAnimation = FALSE
    /\ warned = FALSE
    /\ anims = [t \in AnimIds |-> NoAnim]
    /\ strip = << >>
    /\ stripShown = << >>
    /\ lastShow = Origin("init", "none")
    /\ pending = 0
    /\ ledEvType = "none"
    /\ ledEvCalls = << >>
    /\ ledRet = "True"

\* ------------------------------------------------------ the caller's side
\* the public operation returns (res = "ok") or raises res
Return(res) ==
    /\ cpc' = "idle"
    /\ cres' = res
    /\ ccolors' = <<>>
    /\ cidx' = 0
    /\ cdur' = NoDuration
    /\ carg' = IF cop = "mono" /\ res = "ok" THEN carg ELSE <<>>
    /\ UNCHANGED <<cop, prevOff, pre, outerVars>>

\* variant: deinit() releases the pixel bus right after _stop_effect, without
\* the fill of off()
AfterStopDeinitCloses(op) ==
    IF op = "deinit" THEN "close" ELSE IF op \in StartOps THEN "sclear" ELSE "fill"

\* what follows _stop_effect in the operation
AfterStop(op) == IF op \in StartOps THEN "sclear" ELSE "fill"

\* variant: _stop_effect returns early whatever the slot holds
NothingToStopAlways == TRUE

\* _stop_effect, line 169: if self._effect_thread is None
NothingToStop == effectThread = None

\* variant: _start_effect does not call _stop_effect
FirstStepStartNoStop(op) ==
    IF op \in StartOps \/ NothingToStop THEN AfterStop(op) ELSE "set"

\* every operation calls _stop_effect first (lines 103, 114, 126, 147), which
\* returns at once when the slot is empty (lines 169-170)
FirstStep(op) == IF NothingToStop THEN AfterStop(op) ELSE "set"

\* entry of a public operation other than set_color_palette: pulse validates
\* its colour before anything else; then _stop_effect is entered.  The engine
\* is used until deinit() has released the pixel bus: what a write to the
\* released bus does is up to the neopixel library
Enter(op, args, dur) ==
    /\ cpc = "idle"
    /\ ~released
    /\ cop' = op
    /\ carg' = IF op = "pulse" /\ EnsureRgb(args[1]).err # "none" THEN <<>> ELSE args
    /\ prevOff' = (cop = "off" /\ cres = "ok")
    /\ pre' = Engine
    /\ ccolors' = <<>>
    /\ cidx' = 0
    /\ IF op = "pulse" /\ EnsureRgb(args[1]).err # "none"
       THEN /\ cpc' = "idle"
            /\ cres' = EnsureRgb(args[1]).err
            /\ cdur' = NoDuration
            /\ crgb' = crgb
       ELSE /\ cpc' = FirstStep(op)
            /\ cres' = "none"
            /\ cdur' = dur
            /\ crgb' = IF op = "pulse" THEN EnsureRgb(args[1]).rgb ELSE crgb
    /\ UNCHANGED <<engineVars, threads, order, histVars>>

\* set_color_palette: both colours are validated before the palette is replaced
SetColorPalette(primary, secondary) ==
    /\ cpc = "idle"
    /\ ~released
    /\ cop' = "set_color_palette"
    /\ carg' = <<>>
    /\ prevOff' = (cop = "off" /\ cres = "ok")
    /\ pre' = Engine
    /\ IF EnsureRgb(primary).err # "none"
       THEN cres' = EnsureRgb(primary).err /\ palette' = palette
       ELSE IF EnsureRgb(secondary).err # "none"
            THEN cres' = EnsureRgb(secondary).err /\ palette' = palette
            ELSE /\ cres' = "ok"
                 /\ palette' = Palette(EnsureRgb(primary).rgb, EnsureRgb(secondary).rgb)
    /\ UNCHANGED <<effectThread, stopEvent, lock, pixels, shown, released, threads,
                   order, cpc, cdur, crgb, ccolors, cidx, histVars>>

\* variant: _stop_effect takes the pixel lock before it sets the stop event
\* and keeps it over the join
CSetUnderLock ==
    /\ cpc = "set"
    /\ lock = Free
    /\ lock' = Caller
    /\ stopEvent' = TRUE
    /\ cpc' = "join"
    /\ UNCHANGED <<palette, effectThread, pixels, shown, released, threads,
                   order, cop, carg, cdur, crgb, ccolors, cidx, cres, prevOff,
                   pre, histVars, outerVars>>

\* _stop_effect, line 172: self._stop_event.set()
CSet ==
    /\ cpc = "set"
    /\ stopEvent' = TRUE
    /\ cpc' = "join"
    /\ UNCHANGED <<palette, effectThread, lock, pixels, shown, released, threads,
                   order, cop, carg, cdur, crgb, ccolors, cidx, cres, prevOff,
                   pre, histVars, outerVars>>

\* Thread.join() without a timeout returns once the thread has exited
JoinReturns(t) == threads[t].pc = "done"

\* _stop_effect, lines 173-174: self._effect_thread.join(), then the slot
\* is emptied
CJoin ==
    /\ cpc = "join"
    /\ JoinReturns(effectThread)
    /\ effectThread' = None
    /\ cpc' = "clear"
    /\ UNCHANGED <<palette, stopEvent, lock, pixels, shown, released, threads,
                   order, cop, carg, cdur, crgb, ccolors, cidx, cres, prevOff,
                   pre, histVars, outerVars>>

\* variant: _stop_effect returns without clearing the stop event
CClearForgotten ==
    /\ cpc = "clear"
    /\ cpc' = AfterStop(cop)
    /\ UNCHANGED <<engineVars, threads, order, cop, carg, cdur, crgb, ccolors, cidx,
                   cres, prevOff, pre, histVars, outerVars>>

\* _stop_effect, line 175: self._stop_event.clear()
CClear ==
    /\ cpc = "clear"
    /\ stopEvent' = FALSE
    /\ cpc' = AfterStop(cop)
    /\ UNCHANGED <<palette, effectThread, lock, pixels, shown, released, threads,
                   order, cop, carg, cdur, crgb, ccolors, cidx, cres, prevOff,
                   pre, histVars, outerVars>>

\* _start_effect, line 148: self._stop_event.clear()
CStartClear ==
    /\ cpc = "sclear"
    /\ stopEvent' = FALSE
    /\ cpc' = "spawn"
    /\ UNCHANGED <<palette, effectThread, lock, pixels, shown, released, threads,
                   order, cop, carg, cdur, crgb, ccolors, cidx, cres, prevOff,
                   pre, histVars, outerVars>>

\* the thread _start_effect creates: the runner closure holds the frame
\* generator, the duration and (for pulse) the validated colour; it begins
\* with start = time.monotonic() and step = 0 (lines 151-152)
NewThread(gen, dur, rgb) ==
    [pc |-> "while", gen |-> gen, rgb |-> rgb, dur |-> dur,
     elapsed |-> 0, step |-> 0, colors |-> <<>>, idx |-> 0, final |-> FALSE,
     pal0 |-> palette]

\* the slots a new thread object can take
FreeSlots == {t \in Tids : ~IsAlive(t) /\ t # effectThread}

\* the lowest free slot
NewSlot == CHOOSE t \in FreeSlots : \A u \in FreeSlots : t <= u

\* _start_effect, lines 165-166: create the thread, store it, start it
CSpawn ==
    /\ cpc = "spawn"
    /\ FreeSlots # {}
    /\ threads' = [threads EXCEPT ![NewSlot] =
                      NewThread(cop, cdur, IF cop = "pulse" THEN crgb ELSE Black)]
    /\ effectThread' = NewSlot
    /\ order' = Append(SelectSeq(order, LAMBDA u : u # NewSlot), NewSlot)
    /\ flushed' = flushed \ {NewSlot}
    /\ Return("ok")
    /\ crgb' = Black
    /\ UNCHANGED <<palette, stopEvent, lock, pixels, shown, released, lastFlusher>>

\* variant: speak() fills with the secondary colour
FillColorSecondary(op, args) ==
    CASE op = "speak" -> [err |-> "none", rgb |-> palette.secondary]
      [] op = "mono" -> EnsureRgb(args[1])
      [] OTHER -> [err |-> "none", rgb |-> Black]

\* the colour speak / mono / off (and deinit, through off) hand to _fill
FillColor(op, args) ==
    CASE op = "speak" -> [err |-> "none", rgb |-> palette.primary]
      [] op = "mono" -> EnsureRgb(args[1])
      [] OTHER -> [err |-> "none", rgb |-> Black]

\* speak / mono / off after _stop_effect: evaluate the colour, call _fill
CFill ==
    /\ cpc = "fill"
    /\ IF FillColor(cop, carg).err # "none"
       THEN /\ Return(FillColor(cop, carg).err)
            /\ UNCHANGED <<crgb>>
       ELSE /\ cpc' = "acquire"
            /\ ccolors' = Solid(FillColor(cop, carg).rgb)
            /\ UNCHANGED <<cop, carg, cdur, crgb, cidx, cres, prevOff, pre, outerVars>>
    /\ UNCHANGED <<engineVars, threads, order, histVars>>

\* _apply_colors, line 181: with self._lock
CAcquire ==
    /\ cpc = "acquire"
    /\ lock = Free
    /\ lock' = Caller
    /\ cidx' = 0
    /\ cpc' = "setpix"
    /\ UNCHANGED <<palette, effectThread, stopEvent, pixels, shown, released,
                   threads, order, cop, carg, cdur, crgb, ccolors, cres, prevOff,
                   pre, histVars, outerVars>>

\* _apply_colors, lines 182-185: one iteration of the loop
CSetPixel ==
    /\ cpc = "setpix"
    /\ cidx < Len(ccolors) /\ cidx < PixelCount
    /\ pixels' = [pixels EXCEPT ![cidx + 1] = ccolors[cidx + 1]]
    /\ cidx' = cidx + 1
    /\ UNCHANGED <<palette, effectThread, stopEvent, lock, shown, released, threads,
                   order, cpc, cop, carg, cdur, crgb, ccolors, cres, prevOff, pre,
                   histVars, outerVars>>

\* variant: _apply_colors sets the pixels and forgets show()
CShowForgotten ==
    /\ cpc = "setpix"
    /\ ~(cidx < Len(ccolors) /\ cidx < PixelCount)
    /\ cpc' = "release"
    /\ UNCHANGED <<engineVars, threads, order, cop, carg, cdur, crgb, ccolors, cidx,
                   cres, prevOff, pre, histVars, outerVars>>

\* _apply_colors, line 186: self._pixels.show()
CShow ==
    /\ cpc = "setpix"
    /\ ~(cidx < Len(ccolors) /\ cidx < PixelCount)
    /\ shown' = pixels
    /\ lastFlusher' = Caller
    /\ cpc' = "release"
    /\ UNCHANGED <<palette, effectThread, stopEvent, lock, pixels, released, threads,
                   order, cop, carg, cdur, crgb, ccolors, cidx, cres, prevOff, pre,
                   flushed, outerVars>>

\* _apply_colors: leaving the with block releases the lock; _fill returns
CRelease ==
    /\ cpc = "release"
    /\ lock' = Free
    /\ IF cop = "deinit"
       THEN /\ cpc' = "close"
            /\ UNCHANGED <<cop, carg, cdur, ccolors, cidx, cres, prevOff, pre, outerVars>>
       ELSE Return("ok")
    /\ UNCHANGED <<palette, effectThread, stopEvent, pixels, shown, released,
                   threads, order, crgb, histVars>>

\* deinit, lines 133-135: release the pixel bus
CClose ==
    /\ cpc = "close"
    /\ released' = TRUE
    /\ Return("ok")
    /\ UNCHANGED <<palette, effectThread, stopEvent, lock, pixels, shown, threads,
                   order, crgb, histVars>>

\* ------------------------------------------------------ the runner's side
\* the fields of thread t replaced by those of the record upd
Upd(t, upd) ==
    [threads EXCEPT ![t] = [f \in DOMAIN threads[t] |->
                              IF f \in DOMAIN upd THEN upd[f] ELSE threads[t][f]]]

runnerFrame == <<palette, effectThread, stopEvent, released, order, callerVars, outerVars>>

\* variant: the runner asks the generator for the frame after step
RWhileNextStep(t) ==
    /\ threads[t].pc = "while"
    /\ threads' = IF stopEvent
                  THEN Upd(t, [pc |-> "exit"])
                  ELSE Upd(t, [pc |-> "acquire",
                               colors |-> FrameGenerator(threads[t].gen, threads[t].step + 1,
                                                         palette, threads[t].rgb)])
    /\ UNCHANGED <<runnerFrame, lock, pixels, shown, histVars>>

\* runner, lines 153-154: while not self._stop_event.is_set(), and then
\* colors = frame_generator(step)
RWhile(t) ==
    /\ threads[t].pc = "while"
    /\ threads' = IF stopEvent
                  THEN Upd(t, [pc |-> "exit"])
                  ELSE Upd(t, [pc |-> "acquire",
                               colors |-> FrameGenerator(threads[t].gen, threads[t].step,
                                                         palette, threads[t].rgb)])
    /\ UNCHANGED <<runnerFrame, lock, pixels, shown, histVars>>

\* _apply_colors in the runner, line 181: with self._lock
RAcquire(t) ==
    /\ threads[t].pc = "acquire"
    /\ lock = Free
    /\ lock' = t
    /\ threads' = Upd(t, [pc |-> "setpix", idx |-> 0])
    /\ UNCHANGED <<runnerFrame, pixels, shown, histVars>>

\* _apply_colors in the runner, lines 182-185: one iteration of the loop
RSetPixel(t) ==
    /\ threads[t].pc = "setpix"
    /\ threads[t].idx < Len(threads[t].colors) /\ threads[t].idx < PixelCount
    /\ pixels' = [pixels EXCEPT ![threads[t].idx + 1] = threads[t].colors[threads[t].idx + 1]]
    /\ threads' = Upd(t, [idx |-> threads[t].idx + 1])
    /\ UNCHANGED <<runnerFrame, lock, shown, histVars>>

\* variant: the runner calls show() inside the loop, after any pixel
RShowEarly(t) ==
    /\ threads[t].pc = "setpix"
    /\ shown' = pixels
    /\ flushed' = flushed \cup {t}
    /\ lastFlusher' = t
    /\ threads' = Upd(t, [pc |-> "release"])
    /\ UNCHANGED <<runnerFrame, lock, pixels>>

\* _apply_colors in the runner, line 186: self._pixels.show()
RShow(t) ==
    /\ threads[t].pc = "setpix"
    /\ ~(threads[t].idx < Len(threads[t].colors) /\ threads[t].idx < PixelCount)
    /\ shown' = pixels
    /\ flushed' = flushed \cup {t}
    /\ lastFlusher' = t
    /\ threads' = Upd(t, [pc |-> "release"])
    /\ UNCHANGED <<runnerFrame, lock, pixels>>

\* variant: the duration test without "duration is not None"
DurationElapsedNoneIgnored(dur, e) == e >= dur

\* the duration test of line 157 with the clock reading e (in intervals)
DurationElapsed(dur, e) == dur # NoDuration /\ e >= dur

\* _apply_colors in the runner returns: the lock is released. After the final
\* frame the thread exits; otherwise lines 156-158: step += 1, then the
\* duration check, where time.monotonic() reads any time not before the time
\* already known to have passed
RRelease(t) ==
    /\ threads[t].pc = "release"
    /\ lock' = Free
    /\ IF threads[t].final
       THEN threads' = [threads EXCEPT ![t] = Exited]
       ELSE \E e \in threads[t].elapsed..MaxDur :
               threads' = Upd(t, [colors |-> <<>>, idx |-> 0,
                                  step |-> threads[t].step + 1, elapsed |-> e,
                                  pc |-> IF DurationElapsed(threads[t].dur, e)
                                         THEN "exit" ELSE "wait"])
    /\ UNCHANGED <<runnerFrame, pixels, shown, histVars>>

\* runner, lines 159-160: self._stop_event.wait(interval) returns True
RWaitSet(t) ==
    /\ threads[t].pc = "wait"
    /\ stopEvent
    /\ threads' = Upd(t, [pc |-> "exit"])
    /\ UNCHANGED <<runnerFrame, lock, pixels, shown, histVars>>

\* variant: the wait sleeps for the whole interval whatever the stop event
RWaitTimeoutDeaf(t) ==
    /\ threads[t].pc = "wait"
    /\ threads[t].dur = NoDuration => threads[t].step < MaxStep
    /\ threads' = Upd(t, [pc |-> "while",
                          elapsed |-> Min(threads[t].elapsed + 1, MaxDur)])
    /\ UNCHANGED <<runnerFrame, lock, pixels, shown, histVars>>

\* runner, line 159: the wait times out after one interval and returns False
RWaitTimeout(t) ==
    /\ threads[t].pc = "wait"
    /\ ~stopEvent
    /\ threads[t].dur = NoDuration => threads[t].step < MaxStep
    /\ threads' = Upd(t, [pc |-> "while",
                          elapsed |-> Min(threads[t].elapsed + 1, MaxDur)])
    /\ UNCHANGED <<runnerFrame, lock, pixels, shown, histVars>>

\* variant: the runner never writes its final frame
FinalFrameAlwaysSkipped == TRUE

\* variant: the runner writes its final frame whatever the stop event says
FinalFrameNeverSkipped == FALSE

\* runner, line 162: the final frame is skipped when the stop event is set
FinalFrameSkipped == stopEvent

\* runner, lines 162-163: the final all-zero frame unless the stop event is set
RExit(t) ==
    /\ threads[t].pc = "exit"
    /\ threads' = IF FinalFrameSkipped
                  THEN [threads EXCEPT ![t] = Exited]
                  ELSE Upd(t, [pc |-> "acquire", final |-> TRUE, colors |-> Solid(Black)])
    /\ UNCHANGED <<runnerFrame, lock, pixels, shown, histVars>>

Runner(t) ==
    \/ RWhile(t)
    \/ RAcquire(t)
    \/ RSetPixel(t)
    \/ RShow(t)
    \/ RRelease(t)
    \/ RWaitSet(t)
    \/ RWaitTimeout(t)
    \/ RExit(t)

CallerStep ==
    \/ CSet
    \/ CJoin
    \/ CClear
    \/ CStartClear
    \/ CSpawn
    \/ CFill
    \/ CAcquire
    \/ CSetPixel
    \/ CShow
    \/ CRelease
    \/ CClose

\* ------------------------------------------------- the public API, called
\* the colour specifications the caller passes
GoodInt == IntSpec(Red)
GoodSeq == SeqSpec(<<10, 20, 30>>)
BadSeq == SeqSpec(<<1, 2>>)
MonoSpecs == {GoodInt, BadSeq, OtherSpec}
PulseSpecs == {GoodSeq, BadSeq}
PaletteSpecs == {<<GoodInt, GoodSeq>>, <<GoodInt, BadSeq>>}

\* a public operation called directly
Api(op, args, dur) == Enter(op, args, dur) /\ UNCHANGED outerVars

Wakeup == \E d \in Durations : Api("wakeup", <<>>, d)
Think == \E d \in Durations : Api("think", <<>>, d)
Spin == \E d \in Durations : Api("spin", <<>>, d)
Pulse == \E c \in PulseSpecs, d \in 0..MaxDur : Api("pulse", <<c>>, d)
Speak == Api("speak", <<>>, NoDuration)
Mono == \E c \in MonoSpecs : Api("mono", <<c>>, NoDuration)
Off == Api("off", <<>>, NoDuration)
Deinit == Api("deinit", <<>>, NoDuration)
SetPalette == \E p \in PaletteSpecs : SetColorPalette(p[1], p[2]) /\ UNCHANGED outerVars

Next ==
    \/ Wakeup
    \/ Think
    \/ Spin
    \/ Pulse
    \/ Speak
    \/ Mono
    \/ Off
    \/ Deinit
    \/ SetPalette
    \/ CallerStep
    \/ \E t \in Tids : Runner(t)

Spec == Init /\ [][Next]_vars

\* --------------------------------------- a runner stuck in a frame write
\* pixels.show() never returns: the thread stays alive and holds the lock
Hang(t) ==
    /\ threads[t].pc = "setpix"
    /\ ~(threads[t].idx < Len(threads[t].colors) /\ threads[t].idx < PixelCount)
    /\ threads' = Upd(t, [pc |-> "hung"])
    /\ UNCHANGED <<runnerFrame, lock, pixels, shown, histVars>>

NextHang ==
    \/ Next
    \/ \E t \in Tids : Hang(t)

SpecHang == Init /\ [][NextHang]_vars

\* the effect threads are scheduled fairly (a thread that can run does run);
\* the caller may stop calling
FairSpec == Spec /\ WF_vars(\E t \in Tids : Runner(t))

\* the caller's thread is scheduled fairly too: a public operation that can
\* take its next step does take it
FairCallSpec == FairSpec /\ WF_vars(CallerStep)

\* ------------------------------ the event router of neopixel_service.py
\* the finite default durations (wakeup 2.0 s, spin 1.5 s, think(duration=2.0))
\* last the largest number of intervals a duration has here
DefaultDuration == MaxDur

RingCall(op, args, dur) == [op |-> op, args |-> args, dur |-> dur]

\* variant: handle_event without the branch for Played
DispatchNoPlayed(type) ==
    CASE type = "detection" -> << RingCall("wakeup", <<>>, DefaultDuration) >>
      [] type = "voice-started" -> << RingCall("speak", <<>>, NoDuration) >>
      [] type = "voice-stopped" -> << RingCall("spin", <<>>, DefaultDuration) >>
      [] type = "streaming-started" -> << RingCall("speak", <<>>, NoDuration) >>
      [] type = "streaming-stopped" -> << RingCall("off", <<>>, NoDuration) >>
      [] type = "satellite-connected" -> << RingCall("think", <<>>, DefaultDuration) >>
      [] type = "satellite-disconnected" -> << RingCall("mono", <<IntSpec(Red)>>, NoDuration) >>
      [] OTHER -> << >>

\* handle_event, lines 154-177: the ring calls made for an event type
Dispatch(type) ==
    CASE type = "detection" -> << RingCall("wakeup", <<>>, DefaultDuration) >>
      [] type = "voice-started" -> << RingCall("speak", <<>>, NoDuration) >>
      [] type = "voice-stopped" -> << RingCall("spin", <<>>, DefaultDuration) >>
      [] type = "streaming-started" -> << RingCall("speak", <<>>, NoDuration) >>
      [] type = "streaming-stopped" -> << RingCall("off", <<>>, NoDuration) >>
      [] type = "satellite-connected" -> << RingCall("think", <<>>, DefaultDuration) >>
      [] type = "played" -> << RingCall("off", <<>>, NoDuration) >>
      [] type = "satellite-disconnected" -> << RingCall("mono", <<IntSpec(Red)>>, NoDuration) >>
      [] OTHER -> << >>

\* the event types a client sends: the eight of handle_event and another one
EventTypes ==
    {"detection", "voice-started", "voice-stopped", "streaming-started",
     "streaming-stopped", "satellite-connected", "played",
     "satellite-disconnected", "transcript"}

\* handle_event is entered with an event: it makes its first ring call, or
\* returns True at once when the type selects no branch
HandleEvent(type) ==
    /\ cpc = "idle"
    /\ evRet # "pending"
    /\ evType # "shutdown"
    /\ evType' = type
    /\ IF Dispatch(type) = << >>
       THEN /\ evCalls' = 0
            /\ evQueue' = << >>
            /\ evRet' = "True"
            /\ UNCHANGED <<engineVars, threads, order, callerVars, histVars>>
       ELSE /\ Enter(Head(Dispatch(type)).op, Head(Dispatch(type)).args,
                     Head(Dispatch(type)).dur)
            /\ evCalls' = 1
            /\ evQueue' = Tail(Dispatch(type))
            /\ evRet' = "pending"
    /\ UNCHANGED exceptRouter

\* handle_event after a ring call has returned: the fault propagates, or the
\* next call is made, or line 179 returns True
EvNext ==
    /\ cpc = "idle"
    /\ evRet = "pending"
    /\ IF cres # "ok"
       THEN /\ evRet' = "raised"
            /\ evQueue' = << >>
            /\ UNCHANGED <<evType, evCalls, engineVars, threads, order, callerVars, histVars>>
       ELSE IF evQueue = << >>
            THEN /\ evRet' = "True"
                 /\ UNCHANGED <<evType, evQueue, evCalls, engineVars, threads, order,
                                callerVars, histVars>>
            ELSE /\ Enter(Head(evQueue).op, Head(evQueue).args, Head(evQueue).dur)
                 /\ evCalls' = evCalls + 1
                 /\ evQueue' = Tail(evQueue)
                 /\ UNCHANGED <<evType, evRet>>
    /\ UNCHANGED exceptRouter

\* main, lines 125-130: the server stops, the finally block calls ring.deinit()
Shutdown ==
    /\ evRet # "pending"
    /\ evType # "shutdown"
    /\ evType' = "shutdown"
    /\ Enter("deinit", <<>>, NoDuration)
    /\ UNCHANGED <<evQueue, evCalls, evRet, exceptRouter>>

NextService ==
    \/ \E type \in EventTypes : HandleEvent(type)
    \/ EvNext
    \/ Shutdown
    \/ CallerStep
    \/ \E t \in Tids : Runner(t)

SpecService == Init /\ [][NextService]_vars

\* ------------------------------------ main() of neopixel_service.py
\* the colour arguments of the command line as _parse_color returns them
\* (the defaults of lines 96 and 101)
ArgPrimary == IntSpec(DefaultPrimary)
ArgSecondary == IntSpec(DefaultSecondary)

\* main, line 114: ring.set_color_palette(_parse_color(...), _parse_color(...));
\* _parse_color raises ValueError on a text that is no hexadecimal number,
\* and main is left with that fault
MainSetPalette ==
    /\ mpc = "palette"
    /\ \E parsed \in BOOLEAN :
          IF parsed
          THEN /\ SetColorPalette(ArgPrimary, ArgSecondary)
               /\ mpc' = "pulse"
          ELSE /\ mpc' = "exited"
               /\ UNCHANGED ringVars
    /\ UNCHANGED exceptMain

\* main, line 117: ring.pulse(_parse_color(args.primary_color), duration=1.0)
MainPulse ==
    /\ mpc = "pulse"
    /\ Enter("pulse", <<ArgPrimary>>, DefaultDuration)
    /\ mpc' = "sleep"
    /\ UNCHANGED exceptMain

\* main, line 118: await asyncio.sleep(1.0) returns
MainSleep ==
    /\ mpc = "sleep"
    /\ cpc = "idle"
    /\ mpc' = "off"
    /\ UNCHANGED <<ringVars, exceptMain>>

\* main, line 118: the task is interrupted (cancelled) while it awaits the
\* sleep; the fault leaves main, nothing catches it before line 125
MainInterrupted ==
    /\ mpc = "sleep"
    /\ cpc = "idle"
    /\ mpc' = "exited"
    /\ UNCHANGED <<ringVars, exceptMain>>

\* main, line 119: ring.off()
MainOff ==
    /\ mpc = "off"
    /\ Enter("off", <<>>, NoDuration)
    /\ mpc' = "from_uri"
    /\ UNCHANGED exceptMain

\* main, line 123: AsyncServer.from_uri(args.uri) returns the server, or
\* raises on a URI it does not know
MainFromUri ==
    /\ mpc = "from_uri"
    /\ cpc = "idle"
    /\ \E known \in BOOLEAN : mpc' = IF known THEN "run" ELSE "exited"
    /\ UNCHANGED <<ringVars, exceptMain>>

\* main, lines 125-129: server.run(...) ends, by an interrupt or a failure;
\* control reaches the finally block (the handlers the server runs meanwhile
\* are those of SpecService)
MainRun ==
    /\ mpc = "run"
    /\ mpc' = "finally"
    /\ UNCHANGED <<ringVars, exceptMain>>

\* main, line 130: ring.deinit()
MainFinally ==
    /\ mpc = "finally"
    /\ Enter("deinit", <<>>, NoDuration)
    /\ mpc' = "deinit"
    /\ UNCHANGED exceptMain

\* main returns after ring.deinit() has returned
MainExit ==
    /\ mpc = "deinit"
    /\ cpc = "idle"
    /\ mpc' = "exited"
    /\ UNCHANGED <<ringVars, exceptMain>>

NextMain ==
    \/ MainSetPalette
    \/ MainPulse
    \/ MainSleep
    \/ MainInterrupted
    \/ MainOff
    \/ MainFromUri
    \/ MainRun
    \/ MainFinally
    \/ MainExit
    \/ CallerStep
    \/ \E t \in Tids : Runner(t)

SpecMain == Init /\ [][NextMain]_vars

\* ------------------------- the frame generators and the colour helpers,
\* applied on their own
\* largest ring on which a frame generator is applied
MaxPixels == 3
\* largest step of a wake-up or spin frame (a pulse frame: one cycle more)
MaxFrameStep == 7

\* the palettes the generators are applied with: set_color_palette accepts
\* every colour, (0, 0, 0) included
FramePalettes ==
    {DefaultPalette,
     Palette(IntToRgb(Red), IntToRgb(DefaultSecondary)),
     Palette(Black, IntToRgb(DefaultSecondary))}

\* the colours pulse frames are made of
PulseColors == {IntToRgb(Red), IntToRgb(DefaultPrimary), <<10, 20, 30>>}

\* the colour specifications handed to _ensure_rgb
ColourSpecs ==
    {IntSpec(DefaultPrimary), IntSpec(Red), IntSpec(0), IntSpec(-1),
     IntSpec(16777216 + 5), SeqSpec(<<10, 20, 30>>), SeqSpec(<<0, 0, 255>>),
     SeqSpec(<<300, -1, 0>>), SeqSpec(<<1, 2>>), SeqSpec(<<1, 2, 3, 4>>),
     SeqSpec(<<>>), OtherSpec}

FrameArgs(fn, n, step, pal) ==
    [fn |-> fn, n |-> n, step |-> step, pal |-> pal, value |-> OtherSpec]

\* ring._wakeup_frame(step) on a ring of n pixels
CallWakeupFrame ==
    \E n \in 1..MaxPixels, step \in 0..MaxFrameStep, pal \in FramePalettes :
        /\ fArgs' = FrameArgs("wakeup", n, step, pal)
        /\ fRes' = [NoResult EXCEPT !.frame = WakeupFrameOf(n, step, pal)]
        /\ UNCHANGED <<ringVars, evVars, mainVars, ledVars>>

\* ring._spin_frame(step) on a ring of n pixels
CallSpinFrame ==
    \E n \in 1..MaxPixels, step \in 0..MaxFrameStep, pal \in FramePalettes :
        /\ fArgs' = FrameArgs("spin", n, step, pal)
        /\ fRes' = [NoResult EXCEPT !.frame = SpinFrameOf(n, step, pal)]
        /\ UNCHANGED <<ringVars, evVars, mainVars, ledVars>>

\* ring._pulse_frame(step, color) on a ring of n pixels; the colour is kept
\* as the primary colour of the arguments
CallPulseFrame ==
    \E n \in 1..MaxPixels, step \in 0..(PulseCycle + MaxFrameStep), color \in PulseColors :
        /\ fArgs' = FrameArgs("pulse", n, step, Palette(color, Black))
        /\ fRes' = [NoResult EXCEPT !.frame = PulseFrameOf(n, step, color)]
        /\ UNCHANGED <<ringVars, evVars, mainVars, ledVars>>

\* _ensure_rgb(value)
CallEnsureRgb ==
    \E value \in ColourSpecs :
        /\ fArgs' = [NoArgs EXCEPT !.fn = "ensure_rgb", !.value = value]
        /\ fRes' = [NoResult EXCEPT !.err = EnsureRgb(value).err,
                                    !.rgb = EnsureRgb(value).rgb]
        /\ UNCHANGED <<ringVars, evVars, mainVars, ledVars>>

NextFrames ==
    \/ CallWakeupFrame
    \/ CallSpinFrame
    \/ CallPulseFrame
    \/ CallEnsureRgb

SpecFrames == Init /\ [][NextFrames]_vars

\* ------------------------------- the operations of WyomingNeoPixelLEDs,
\* its animation threads and the event router of wyoming_neopixel_server.py
\* variant: the truth test of self.pixels always succeeds
HasPixelsUnchecked == TRUE

\* `if self.pixels:` of the effect methods and of _async_neopixel_fill
HasPixels == ledPixels

\* __init__ and _initialize_pixels: neopixel.NeoPixel(...) returns the strip,
\* which is filled with COLOR_OFF and shown, or raises and pixels is None
LedInit ==
    /\ ledPc = "new"
    /\ \E ok \in BOOLEAN :
          /\ ledPixels' = ok
          /\ strip' = IF ok THEN LedFill(COLOR_OFF) ELSE << >>
          /\ stripShown' = IF ok THEN LedFill(COLOR_OFF) ELSE << >>
    /\ ledPc' = "idle"
    /\ ledOp' = "init"
    /\ ledRes' = "ok"
    /\ UNCHANGED <<animationThread, stopAnimation, warned, anims, lastShow, pending,
                   ledEv, exceptLed>>

\* the effect method returns (res = "ok") or raises res
LedReturn(res) ==
    /\ ledPc' = "idle"
    /\ ledRes' = res

\* an effect method is called; _stop_current_animation, lines 70-72: with a
\* live animation thread the stop flag is set
LedEnter(op) ==
    /\ ledPc = "idle"
    /\ op \in AnimOps => FreeAnims # {}
    /\ op = "wakeup" => pending < MaxPending
    /\ ledOp' = op
    /\ ledRes' = "none"
    /\ IF animationThread # None /\ AnimAlive(animationThread)
       THEN /\ stopAnimation' = TRUE
            /\ ledPc' = "join"
       ELSE /\ ledPc' = "act"
            /\ UNCHANGED stopAnimation
    /\ UNCHANGED <<ledPixels, animationThread, warned, anims, ledOut, pending>>

\* line 74: join returns because the thread has exited
LedJoin ==
    /\ ledPc = "join"
    /\ ~AnimAlive(animationThread)
    /\ ledPc' = "reset"
    /\ UNCHANGED <<ledOp, ledRes, ledPixels, animationThread, stopAnimation, warned,
                   anims, ledOut, pending, ledEv, exceptLed>>

\* lines 74-76: join returns after its timeout, the thread is still alive
\* and the warning is logged
LedJoinTimeout ==
    /\ ledPc = "join"
    /\ AnimAlive(animationThread)
    /\ warned' = TRUE
    /\ ledPc' = "reset"
    /\ UNCHANGED <<ledOp, ledRes, ledPixels, animationThread, stopAnimation,
                   anims, ledOut, pending, ledEv, exceptLed>>

\* lines 77-78: the flag is reset and the reference cleared
LedReset ==
    /\ ledPc = "reset"
    /\ stopAnimation' = FALSE
    /\ animationThread' = None
    /\ ledPc' = "act"
    /\ UNCHANGED <<ledOp, ledRes, ledPixels, warned, anims, ledOut, pending, ledEv,
                   exceptLed>>

\* the body of the effect method after _stop_current_animation: nothing
\* without pixels; a thread is created and started (listen, think); the
\* strip is filled (the others). A method called on None raises.
LedAct ==
    /\ ledPc = "act"
    /\ IF ~HasPixels
       THEN /\ LedReturn("ok")
            /\ UNCHANGED <<animationThread, anims, strip>>
       ELSE IF ~ledPixels
            THEN /\ LedReturn("AttributeError")
                 /\ UNCHANGED <<animationThread, anims, strip>>
            ELSE IF ledOp \in AnimOps
                 THEN LET t == CHOOSE u \in FreeAnims : \A v \in FreeAnims : u <= v
                      IN  /\ anims' = [anims EXCEPT ![t] = NewAnim(ledOp)]
                          /\ animationThread' = t
                          /\ LedReturn("ok")
                          /\ UNCHANGED strip
                 ELSE /\ strip' = LedFill(LedColor(ledOp))
                      /\ ledPc' = "show"
                      /\ UNCHANGED <<ledRes, animationThread, anims>>
    /\ UNCHANGED <<ledOp, ledPixels, stopAnimation, warned, stripShown, lastShow,
                   pending, ledEv, exceptLed>>

\* pixels.show() of the effect method; wakeup goes on to line 107
LedShow ==
    /\ ledPc = "show"
    /\ stripShown' = strip
    /\ lastShow' = Origin("caller", ledOp)
    /\ IF ledOp = "wakeup"
       THEN /\ ledPc' = "schedule"
            /\ UNCHANGED ledRes
       ELSE LedReturn("ok")
    /\ UNCHANGED <<ledOp, ledPixels, animationThread, stopAnimation, warned, anims,
                   strip, pending, ledEv, exceptLed>>

\* wakeup, lines 107-113: the fill with COLOR_OFF is handed to the running
\* event loop; without a running loop the warning is logged
LedSchedule ==
    /\ ledPc = "schedule"
    /\ \E running \in BOOLEAN :
          IF running
          THEN /\ pending' = pending + 1
               /\ UNCHANGED warned
          ELSE /\ warned' = TRUE
               /\ UNCHANGED pending
    /\ LedReturn("ok")
    /\ UNCHANGED <<ledOp, ledPixels, animationThread, stopAnimation, anims, ledOut,
                   ledEv, exceptLed>>

\* the event loop runs the task of _async_neopixel_fill(COLOR_OFF) when no
\* handler occupies it: line 84
LedTaskFill ==
    /\ ledPc = "idle"
    /\ ledRet # "pending"
    /\ pending > 0
    /\ pending' = pending - 1
    /\ IF HasPixels
       THEN /\ strip' = LedFill(COLOR_OFF)
            /\ ledPc' = "task"
       ELSE UNCHANGED <<strip, ledPc>>
    /\ UNCHANGED <<ledOp, ledRes, ledPixels, animationThread, stopAnimation, warned,
                   anims, stripShown, lastShow, ledEv, exceptLed>>

\* line 85
LedTaskShow ==
    /\ ledPc = "task"
    /\ stripShown' = strip
    /\ lastShow' = Origin("task", "wakeup")
    /\ ledPc' = "idle"
    /\ UNCHANGED <<ledOp, ledRes, ledPixels, animationThread, stopAnimation, warned,
                   anims, strip, pending, ledEv, exceptLed>>

LedStep ==
    \/ LedJoin
    \/ LedReset
    \/ LedAct
    \/ LedShow
    \/ LedSchedule

\* an effect method called from outside handle_event: no event is handled
LedApi(op) ==
    /\ ledRet # "pending"
    /\ LedEnter(op)
    /\ ledEvType' = "none"
    /\ ledEvCalls' = << >>
    /\ ledRet' = "True"
    /\ UNCHANGED exceptLed

\* lines 169-170 and 209-210: the test of the loop
AnimWhile(t) ==
    /\ anims[t].pc = "while"
    /\ anims' = [anims EXCEPT ![t].pc =
                    IF stopAnimation \/ ~ledPixels THEN "final" ELSE "draw"]
    /\ UNCHANGED <<ledCtl, ledOut, pending, ledEv, exceptLed>>

\* lines 173-186 and 214-225: the frame is written to the buffer
AnimDraw(t) ==
    /\ anims[t].pc = "draw"
    /\ strip' = IF anims[t].kind = "listen"
                THEN ListenFrame(HeadAt(anims[t].step))
                ELSE LedFill(ThinkColor(LevelAt(anims[t].step).level))
    /\ anims' = [anims EXCEPT ![t].pc = "show"]
    /\ UNCHANGED <<ledCtl, stripShown, lastShow, pending, ledEv, exceptLed>>

\* lines 190-192 and 226-235: pixels.show(), then the head or the level moves
AnimShow(t) ==
    /\ anims[t].pc = "show"
    /\ stripShown' = strip
    /\ lastShow' = Origin("thread", anims[t].kind)
    /\ anims' = [anims EXCEPT ![t].pc = "sleep",
                              ![t].step = Min(anims[t].step + 1, MaxAnimStep)]
    /\ UNCHANGED <<ledCtl, strip, pending, ledEv, exceptLed>>

\* lines 193 and 237: time.sleep returns
AnimSleep(t) ==
    /\ anims[t].pc = "sleep"
    /\ anims[t].step < MaxAnimStep \/ stopAnimation
    /\ anims' = [anims EXCEPT ![t].pc = "while"]
    /\ UNCHANGED <<ledCtl, ledOut, pending, ledEv, exceptLed>>

\* lines 197-198 and 241-242: after the loop the buffer is filled with
\* COLOR_OFF, or the thread ends when there are no pixels
AnimFinal(t) ==
    /\ anims[t].pc = "final"
    /\ IF HasPixels
       THEN /\ strip' = LedFill(COLOR_OFF)
            /\ anims' = [anims EXCEPT ![t].pc = "finalshow"]
       ELSE /\ anims' = [anims EXCEPT ![t] = AnimDone]
            /\ UNCHANGED strip
    /\ UNCHANGED <<ledCtl, stripShown, lastShow, pending, ledEv, exceptLed>>

\* lines 199 and 243: pixels.show(), and the thread ends
AnimFinalShow(t) ==
    /\ anims[t].pc = "finalshow"
    /\ stripShown' = strip
    /\ lastShow' = Origin("thread", anims[t].kind)
    /\ anims' = [anims EXCEPT ![t] = AnimDone]
    /\ UNCHANGED <<ledCtl, strip, pending, ledEv, exceptLed>>

Anim(t) ==
    \/ AnimWhile(t)
    \/ AnimDraw(t)
    \/ AnimShow(t)
    \/ AnimSleep(t)
    \/ AnimFinal(t)
    \/ AnimFinalShow(t)

\* handle_event, lines 113-115: the controller has no pixels
LedUnavailable == ~ledPixels

\* handle_event of wyoming_neopixel_server.py, lines 117-147: the effect
\* method called for an event type ("none": no branch is taken)
LedDispatch(type) ==
    CASE type = "detection" -> "wakeup"
      [] type = "voice-started" -> "speak"
      [] type = "voice-stopped" -> "think"
      [] type = "streaming-stopped" -> "off"
      [] type = "satellite-connected" -> "off"
      [] type = "played" -> "speak"
      [] type = "satellite-disconnected" -> "disconnected"
      [] OTHER -> "none"

\* handle_event is entered with an event: it returns True at once without
\* pixels or without a branch for the type, or calls the effect method
LedHandleEvent(type) ==
    /\ ledPc = "idle"
    /\ ledRet # "pending"
    /\ ledEvType' = type
    /\ IF LedUnavailable \/ LedDispatch(type) = "none"
       THEN /\ ledEvCalls' = << >>
            /\ ledRet' = "True"
            /\ UNCHANGED <<ledCtl, anims, ledOut, pending>>
       ELSE /\ LedEnter(LedDispatch(type))
            /\ ledEvCalls' = << LedDispatch(type) >>
            /\ ledRet' = "pending"
    /\ UNCHANGED exceptLed

\* handle_event after the effect method has returned: line 149 returns True,
\* or the fault of the method propagates
LedEvReturn ==
    /\ ledPc = "idle"
    /\ ledRet = "pending"
    /\ ledRet' = IF ledRes = "ok" THEN "True" ELSE "raised"
    /\ UNCHANGED <<ledCtl, anims, ledOut, pending, ledEvType, ledEvCalls, exceptLed>>

NextLed ==
    \/ LedInit
    \/ \E op \in LedOps : LedApi(op)
    \/ LedStep
    \/ LedTaskFill
    \/ LedTaskShow
    \/ \E t \in AnimIds : Anim(t)
    \/ \E type \in EventTypes : LedHandleEvent(type)
    \/ LedEvReturn

SpecLed == Init /\ [][NextLed]_vars

\* --------------------------- an animation thread slower than the join
\* the join of line 74 may also return by its timeout of one second, the
\* thread being delayed for that long (by the scheduler or inside show());
\* the two animations and off() are called directly
SlowOps == {"listen", "think", "off"}

LedSlowStep ==
    \/ LedJoin
    \/ LedJoinTimeout
    \/ LedReset
    \/ LedAct
    \/ LedShow

NextLedSlow ==
    \/ LedInit
    \/ \E op \in SlowOps : LedApi(op)
    \/ LedSlowStep
    \/ \E t \in AnimIds : Anim(t)

\* the caller and the animation threads are scheduled fairly
SpecLedSlow ==
    /\ Init
    /\ [][NextLedSlow]_vars
    /\ WF_vars(LedSlowStep)
    /\ \A t \in AnimIds : WF_vars(Anim(t))

\* ------------------------------------------------------------ properties
Alive == {t \in Tids : IsAlive(t)}
AtRest == cpc = "idle"
\* position of thread t in the order of creation
Rank(t) == CHOOSE i \in 1..Len(order) : order[i] = t

\* the buffer and the ring are all-zero and the last flush was thread t's
ZeroedBy(t) ==
    /\ pixels = Solid(Black)
    /\ shown = Solid(Black)
    /\ lastFlusher = t

\* C1: with a single caller, at most one effect runner thread is alive in
\* every reachable state, and when _start_effect is about to start a new
\* runner (after its _stop_effect) no runner is alive any more.
C1_AtMostOneRunner ==
    /\ Cardinality(Alive) <= 1
    /\ cpc \in {"sclear", "spawn"} => Alive = {}

\* C1 witness: a start operation called while an effect was running is about
\* to start its runner; the previous runner was cancelled in mid-effect.
C1_Witness ==
    /\ cpc = "spawn"
    /\ pre.run
    /\ lastFlusher = pre.eff
    /\ shown # Solid(Black)
    /\ Alive = {}

\* C2: atomic replacement: whenever a runner has made the last flush, no
\* runner created after it has flushed a frame yet, i.e. no frame of an
\* effect A reaches the pixels after the first frame of a later effect B.
C2_NoStaleFrame ==
    lastFlusher \in Tids =>
        \A u \in flushed : u \in Tids /\ Rank(u) <= Rank(lastFlusher)

\* C2 witness: effect B was started while effect A was running, and B has
\* flushed its first frame.
C2_Witness ==
    /\ AtRest
    /\ cop \in StartOps
    /\ pre.run
    /\ effectThread \in flushed
    /\ lastFlusher = effectThread
    /\ IsAlive(effectThread)

\* the colour a one-shot operation was asked to show
RequestedColour ==
    CASE cop = "speak" -> pre.pal.primary
      [] cop = "mono" -> IF carg[1].kind = "int"
                         THEN IntToRgb(carg[1].val)
                         ELSE <<carg[1].seq[1], carg[1].seq[2], carg[1].seq[3]>>
      [] OTHER -> <<0, 0, 0>>

\* C3: once speak(), mono(c) or off() has returned, and until the next
\* public call, no effect thread is alive and every pixel, in the buffer and
\* on the ring, has the requested colour (primary, c, or (0,0,0)).
C3_OneShot ==
    (AtRest /\ cop \in {"speak", "mono", "off"} /\ cres = "ok") =>
        /\ Alive = {}
        /\ \A i \in 1..PixelCount : pixels[i] = RequestedColour
        /\ \A i \in 1..PixelCount : shown[i] = RequestedColour

\* C3 witness: speak() has returned after replacing a running effect.
C3_Witness ==
    /\ AtRest
    /\ cop = "speak"
    /\ cres = "ok"
    /\ pre.run
    /\ pixels = Solid(palette.primary)
    /\ pixels # Solid(Black)

\* C4 (as claimed): when set_color_palette, mono or pulse raises on an
\* invalid colour while an effect is running, the engine is as it was before
\* the call: same effect thread, not signalled to stop, still alive unless
\* it has meanwhile completed on its own, and the same palette.
C4_FaultLeavesEngine ==
    (AtRest /\ cres \notin {"ok", "none"} /\ pre.run) =>
        /\ effectThread = pre.eff
        /\ ~stopEvent
        /\ palette = pre.pal
        /\ IsAlive(pre.eff) \/ ZeroedBy(pre.eff)

\* C5 (as claimed): every generator frame a runner flushes is the frame its
\* generator yields with the palette that was current when it was started.
C5_PaletteIsolation ==
    \A t \in Tids :
        (threads[t].pc = "release" /\ ~threads[t].final) =>
            threads[t].colors =
                FrameGenerator(threads[t].gen, threads[t].step, threads[t].pal0,
                               threads[t].rgb)

\* an effect with a finite duration is running
FiniteRunning == \E t \in Tids : IsAlive(t) /\ threads[t].dur # NoDuration

\* C6: an effect with a finite duration terminates on its own (its thread
\* exits without any further public call), and when its thread has exited
\* without having been superseded the last frame flushed is its all-zero
\* frame, so the buffer is all-zero.
C6_NaturalCompletion ==
    /\ [](AtRest /\ effectThread # None /\ ~IsAlive(effectThread) => ZeroedBy(effectThread))
    /\ FiniteRunning ~> ~FiniteRunning

\* C6 witness: a finite effect has run to its end with no call after it.
C6_Witness ==
    /\ AtRest
    /\ cop \in StartOps
    /\ cres = "ok"
    /\ effectThread # None
    /\ ~IsAlive(effectThread)
    /\ ZeroedBy(effectThread)

\* C7 (as claimed): after an effect with a finite duration has completed
\* naturally, no further public call made, the slot _effect_thread is empty.
C7_SlotEmptied ==
    (AtRest /\ cop \in StartOps /\ cres = "ok" /\ Alive = {}) => effectThread = None

\* C8 (as claimed): a caller waiting in the join of _stop_effect for a thread
\* that is stuck in a frame write is not blocked: the join can return.
C8_BoundedJoin ==
    (cpc = "join" /\ threads[effectThread].pc = "hung") => ENABLED CJoin

\* C9: after off() has returned, never with a fault, the buffer and the ring
\* are all-zero and no effect thread is alive; when the call before it was
\* off() too, the engine is exactly as that first call left it.
C9_OffIdempotent ==
    (AtRest /\ cop = "off") =>
        /\ cres = "ok"
        /\ pixels = Solid(Black)
        /\ shown = Solid(Black)
        /\ Alive = {}
        /\ lock = Free
        /\ palette = pre.pal
        /\ prevOff => Engine = pre

\* C9 witness: off() has returned twice in a row.
C9_Witness ==
    /\ AtRest
    /\ cop = "off"
    /\ prevOff
    /\ cres = "ok"
    /\ order # <<>>

\* the event types handle_event has a branch for
Recognised ==
    {"detection", "voice-started", "voice-stopped", "streaming-started",
     "streaming-stopped", "satellite-connected", "played", "satellite-disconnected"}

\* C10: handle_event makes at most one ring call while it handles an event;
\* when it has returned it has returned True, after exactly one ring call for
\* each of the eight recognised types and none for any other type.
C10_OneCallPerEvent ==
    /\ evCalls <= 1
    /\ evRet \in {"True", "pending"}
    /\ (evRet = "True" /\ evType \in EventTypes) =>
          evCalls = (IF evType \in Recognised THEN 1 ELSE 0)

\* C10 witness: a satellite-disconnected event has been handled with one
\* call, mono(red), which replaced a running effect.
C10_Witness ==
    /\ evType = "satellite-disconnected"
    /\ evRet = "True"
    /\ evCalls = 1
    /\ cop = "mono"
    /\ pre.run
    /\ pixels = Solid(<<255, 0, 0>>)

\* C12 (as claimed): whenever main has exited after the ring was constructed,
\* ring.deinit() has been called (the pixel bus is released).
C12_DeinitBeforeExit ==
    mpc = "exited" => (cop = "deinit" /\ released)

\* C13: deinit() releases the pixel bus only after it has stopped the running
\* effect and flushed an all-zero frame: at the release no effect thread is
\* alive, the lock is free and the caller's zero frame is the last flush; once
\* the bus is released the call has returned and nothing is left that could
\* set or flush a pixel.
C13_DeinitOrder ==
    /\ cpc = "close" =>
          /\ cop = "deinit" /\ ~released
          /\ Alive = {} /\ effectThread = None /\ lock = Free
          /\ ZeroedBy(Caller)
    /\ released =>
          /\ cpc = "idle" /\ cop = "deinit" /\ cres = "ok"
          /\ Alive = {} /\ lock = Free
          /\ ZeroedBy(Caller)

\* C13 witness: deinit() was called while an effect was running and has
\* released the bus.
C13_Witness ==
    /\ released
    /\ cop = "deinit"
    /\ pre.run
    /\ flushed # {}

\* C19: an effect started without a duration never leaves its loop on its
\* own and never writes the final all-zero frame: its runner is at the exit
\* only with the stop event set, and it exits only while a public call waits
\* for it in the join of _stop_effect, without flushing anything.
C19_NoDurationUntilCancelled ==
    /\ [](\A t \in Tids :
            (IsAlive(t) /\ threads[t].dur = NoDuration) =>
                /\ ~threads[t].final
                /\ threads[t].pc = "exit" => stopEvent)
    /\ [][\A t \in Tids :
            (IsAlive(t) /\ threads[t].dur = NoDuration /\ ~(IsAlive(t))') =>
                /\ stopEvent
                /\ cpc = "join"
                /\ effectThread = t
                /\ shown' = shown /\ pixels' = pixels]_vars

\* C19 witness: an effect without a duration has flushed every frame the
\* bound allows and is still running, no call being in progress.
C19_Witness ==
    \E t \in Tids :
        /\ AtRest
        /\ threads[t].dur = NoDuration
        /\ threads[t].pc = "wait"
        /\ threads[t].step = MaxStep
        /\ t \in flushed

\* C20: a cancelled runner never flushes the all-zero frame: a runner that
\* left its loop for another reason than an elapsed duration finds the stop
\* event still set at the test of line 162, and a runner that finds it set
\* there, also when its duration had elapsed first, exits without a write.
C20_CancelSkipsFinalFrame ==
    /\ [](\A t \in Tids :
            (threads[t].pc = "exit" /\ ~stopEvent) =>
                DurationElapsed(threads[t].dur, threads[t].elapsed))
    /\ [][\A t \in Tids :
            (threads[t].pc = "exit" /\ stopEvent /\ threads[t]' # threads[t]) =>
                /\ threads[t]' = Exited
                /\ shown' = shown /\ pixels' = pixels
                /\ lastFlusher' = lastFlusher]_vars

\* C20 witness: the stop event was set after the duration check had broken
\* the loop and before the runner tests it; the effect's frame is on the ring.
C20_Witness ==
    \E t \in Tids :
        /\ threads[t].pc = "exit"
        /\ DurationElapsed(threads[t].dur, threads[t].elapsed)
        /\ stopEvent
        /\ cpc = "join"
        /\ lastFlusher = t
        /\ shown # Solid(Black)

\* the pixels of the frame returned that are not off
NonOff == {i \in 1..Len(fRes.frame) : fRes.frame[i] # Black}

\* the number of pixels _wakeup_frame is to light at the step applied
Lit == Min(fArgs.step % (2 * fArgs.n), fArgs.n)

\* C15 (as claimed): for every palette, _wakeup_frame(s) has N pixels, of
\* which exactly min(s mod 2N, N) are not off; these equal primary and are
\* the lowest-indexed ones.
C15_WakeupAnyPalette ==
    fArgs.fn = "wakeup" =>
        /\ Len(fRes.frame) = fArgs.n
        /\ Cardinality(NonOff) = Lit
        /\ \A i \in NonOff : fRes.frame[i] = fArgs.pal.primary /\ i <= Lit

\* C15 (amended): _wakeup_frame(s) has N pixels; the min(s mod 2N, N)
\* lowest-indexed ones equal primary and all others are off, so that exactly
\* min(s mod 2N, N) pixels are not off whenever primary is not (0, 0, 0).
C15_WakeupPrefix ==
    fArgs.fn = "wakeup" =>
        /\ Len(fRes.frame) = fArgs.n
        /\ \A i \in 1..fArgs.n :
              fRes.frame[i] = IF i <= Lit THEN fArgs.pal.primary ELSE Black
        /\ fArgs.pal.primary # Black => Cardinality(NonOff) = Lit

\* C15 witness: a frame of the second half of the cycle on a ring of several
\* pixels, all of them lit in a primary colour that is not off.
C15_Witness ==
    /\ fArgs.fn = "wakeup"
    /\ fArgs.n >= 2
    /\ fArgs.step % (2 * fArgs.n) > fArgs.n
    /\ fArgs.pal.primary # Black
    /\ Cardinality(NonOff) = fArgs.n

\* C16 (as claimed): for every palette, _spin_frame(s) has N pixels, exactly
\* one of which is not off, the one at index s mod N.
C16_SpinAnyPalette ==
    fArgs.fn = "spin" =>
        /\ Len(fRes.frame) = fArgs.n
        /\ NonOff = {(fArgs.step % fArgs.n) + 1}

\* C16 (amended): _spin_frame(s) has N pixels; the one at index s mod N
\* equals primary and all others are off, so that exactly one pixel is not
\* off whenever primary is not (0, 0, 0).
C16_SpinPosition ==
    fArgs.fn = "spin" =>
        /\ Len(fRes.frame) = fArgs.n
        /\ \A i \in 1..fArgs.n :
              fRes.frame[i] = IF i - 1 = fArgs.step % fArgs.n
                              THEN fArgs.pal.primary ELSE Black
        /\ fArgs.pal.primary # Black => NonOff = {(fArgs.step % fArgs.n) + 1}

\* C16 witness: the spinner has wrapped around a ring of several pixels and
\* its one lit pixel is not the first.
C16_Witness ==
    /\ fArgs.fn = "spin"
    /\ fArgs.n >= 2
    /\ fArgs.step >= fArgs.n
    /\ fArgs.pal.primary # Black
    /\ NonOff = {(fArgs.step % fArgs.n) + 1}
    /\ 1 \notin NonOff

\* C17 (as claimed): every pixel of a pulse frame carries the same colour;
\* the frame is the same 40 steps later; the level is 0 at phase 0 and 1 at
\* phase 20; and for the phases 1..19 the level, and with it the frame, is
\* that of phase 40 - phase.
C17_PulseShape ==
    fArgs.fn = "pulse" =>
        LET phase == fArgs.step % PulseCycle
            color == fArgs.pal.primary
        IN  /\ Len(fRes.frame) = fArgs.n
            /\ \A i \in 1..fArgs.n : fRes.frame[i] = fRes.frame[1]
            /\ fRes.frame = PulseFrameOf(fArgs.n, fArgs.step + PulseCycle, color)
            /\ phase = 0 => fRes.frame = SolidOf(fArgs.n, Black)
            /\ phase = PulseCycle \div 2 => fRes.frame = SolidOf(fArgs.n, color)
            /\ phase \in 1..(PulseCycle \div 2 - 1) =>
                  /\ PulseLevel(phase) = PulseLevel(PulseCycle - phase)
                  /\ fRes.frame = PulseFrameOf(fArgs.n, PulseCycle - phase, color)

\* C18 (as claimed): _ensure_rgb returns channels within 0..255 for every
\* int and every sequence of three ints; a packed int gives (RR, GG, BB), a
\* triple of channels within range is returned as it is, and a sequence of
\* another length raises the validation fault.
C18_ChannelsInRange ==
    fArgs.fn = "ensure_rgb" =>
        LET v == fArgs.value
        IN  /\ (v.kind = "seq" /\ Len(v.seq) # 3) => fRes.err = "ValueError"
            /\ (v.kind = "int" \/ (v.kind = "seq" /\ Len(v.seq) = 3)) =>
                  /\ fRes.err = "none"
                  /\ \A k \in 1..3 : fRes.rgb[k] \in 0..255
            /\ (v.kind = "int" /\ v.val \in 0..16777215) =>
                  fRes.rgb[1] * 65536 + fRes.rgb[2] * 256 + fRes.rgb[3] = v.val
            /\ (v.kind = "seq" /\ Len(v.seq) = 3) => fRes.rgb = v.seq

\* C11: in both event routers a streaming-started event results in exactly
\* one speak() call on the LED controller: the router of neopixel_service.py
\* makes the single call ring.speak(), and whenever the router of
\* wyoming_neopixel_server.py has returned from a streaming-started event
\* with a working strip, the calls it made are the single call speak().
C11_StreamingStartedSpeaks ==
    /\ Dispatch("streaming-started") = << RingCall("speak", <<>>, NoDuration) >>
    /\ (ledEvType = "streaming-started" /\ ledRet = "True" /\ ledPixels)
          => ledEvCalls = << "speak" >>

\* C14: disabled mode (pixels is None after a failed initialisation): no
\* effect call raises or waits, nothing is ever written to a strip or shown,
\* no animation thread is created, and the event handler of
\* wyoming_neopixel_server.py returns True for every event without a call.
C14_DisabledMode ==
    (ledPc # "new" /\ ~ledPixels) =>
        /\ ledPc \in {"idle", "act"}
        /\ ledRes \in {"ok", "none"}
        /\ strip = << >>
        /\ stripShown = << >>
        /\ lastShow = Origin("init", "none")
        /\ animationThread = None
        /\ \A t \in AnimIds : anims[t] = NoAnim
        /\ pending = 0
        /\ ledRet = "True"
        /\ ledEvCalls = << >>

\* C14 witness: without pixels listen() has returned, and after it the
\* handler has returned True for a detection event.
C14_Witness ==
    /\ ~ledPixels
    /\ ledPc = "idle"
    /\ ledOp = "listen"
    /\ ledRes = "ok"
    /\ ledEvType = "detection"
    /\ ledRet = "True"

\* C27: whenever no public operation is in progress the stop event is clear,
\* and it is clear when _start_effect creates and starts the new thread; the
\* stop event is set only while a public operation is inside _stop_effect,
\* between lines 172 and 175, so a runner that finds it set at its first test
\* is being stopped by a later call, not by an earlier replacement.
C27_StopFlagHygiene ==
    /\ cpc = "idle" => ~stopEvent
    /\ cpc = "spawn" => ~stopEvent
    /\ stopEvent => cpc \in {"join", "clear"}
    /\ \A t \in Tids :
          (stopEvent /\ threads[t].pc = "while" /\ threads[t].step = 0)
              => (cpc = "join" /\ effectThread = t)

\* C27 witness: an effect replaced a running one; the call has returned and
\* the new runner is about to make its first test of the stop event.
C27_Witness ==
    /\ cpc = "idle"
    /\ cop \in StartOps
    /\ cres = "ok"
    /\ pre.run
    /\ effectThread # None
    /\ threads[effectThread].pc = "while"
    /\ threads[effectThread].step = 0
    /\ ~stopEvent

\* C23: pixel writes and the flush are made under the lock, and at every
\* flush the buffer is one complete frame handed to _apply_colors: whoever
\* is in the loop or after show() holds the lock, the pixels written so far
\* are those of its frame, and what show() sent to the ring is that frame,
\* never a mix of two frames.
C23_FrameAtomicity ==
    /\ cpc \in {"setpix", "release"} =>
          /\ lock = Caller
          /\ \A i \in 1..cidx : pixels[i] = ccolors[i]
    /\ cpc = "release" => (shown = ccolors /\ pixels = ccolors)
    /\ \A t \in Tids :
          /\ threads[t].pc \in {"setpix", "release"} =>
                /\ lock = t
                /\ \A i \in 1..threads[t].idx : pixels[i] = threads[t].colors[i]
          /\ threads[t].pc = "release" =>
                (shown = threads[t].colors /\ pixels = threads[t].colors)

\* C23 witness: a runner has just flushed a frame whose pixels differ, over
\* a buffer that held another frame before.
C23_Witness ==
    \E t \in Tids :
        /\ threads[t].pc = "release"
        /\ threads[t].step >= 1
        /\ shown = threads[t].colors
        /\ \E i, j \in 1..PixelCount : shown[i] # shown[j]

\* the palettes the engine can hold: the default one and those
\* set_color_palette accepts
Palettes ==
    {DefaultPalette} \cup
    {Palette(EnsureRgb(p[1]).rgb, EnsureRgb(p[2]).rgb) :
        p \in {q \in PaletteSpecs : EnsureRgb(q[1]).err = "none" /\ EnsureRgb(q[2]).err = "none"}}

\* the frames the generator of thread t returns for a step
FramesAt(t, step) ==
    {FrameGenerator(threads[t].gen, step, pal, threads[t].rgb) : pal \in Palettes}

\* C22: the k-th generator frame an effect flushes is frame_generator(k - 1).
\* A runner that has flushed nothing is at step 0; the frame it applies, and
\* the one show() has sent to the ring, is frame_generator(step); step grows
\* by exactly one when the application of a generator frame returns and
\* changes nowhere else; a runner leaves its loop without the stop event
\* only after a frame has been applied, whatever the duration.
C22_FrameSequencing ==
    /\ [](\A t \in Tids :
            /\ (IsAlive(t) /\ t \notin flushed) => threads[t].step = 0
            /\ (threads[t].pc \in {"acquire", "setpix", "release"} /\ ~threads[t].final)
                  => threads[t].colors \in FramesAt(t, threads[t].step)
            /\ (threads[t].pc = "release" /\ ~threads[t].final)
                  => shown = threads[t].colors
            /\ (threads[t].pc = "exit" /\ ~stopEvent)
                  => (threads[t].step >= 1 /\ t \in flushed))
    /\ [][\A t \in Tids :
            /\ (IsAlive(t) /\ (IsAlive(t))' /\ threads'[t].step # threads[t].step)
                  => /\ threads[t].pc = "release"
                     /\ ~threads[t].final
                     /\ threads'[t].step = threads[t].step + 1
            /\ (threads[t].pc = "release" /\ ~threads[t].final /\ threads'[t] # threads[t])
                  => threads'[t].step = threads[t].step + 1
            /\ (~IsAlive(t) /\ (IsAlive(t))') => threads'[t].step = 0]_vars

\* C22 witness: a runner with duration 0 has flushed frame_generator(0), and
\* that frame is not the one of step 1.
C22_Witness ==
    \E t \in Tids :
        /\ threads[t].dur = 0
        /\ threads[t].pc = "release"
        /\ ~threads[t].final
        /\ threads[t].step = 0
        /\ shown \in FramesAt(t, 0)
        /\ shown \notin FramesAt(t, 1)

\* the stop event has been set by _stop_effect and the caller waits in join
Stopping == stopEvent /\ cpc = "join"

\* C21: once _stop_effect has set the stop event, the thread it joins does
\* not begin the application of another frame (it flushes at most the frame
\* it was applying: a generator frame or its final zero frame), no interval
\* wait of it times out, and, scheduled fairly, it terminates.
C21_CancellationLatency ==
    /\ [][Stopping =>
            \A t \in Tids :
                /\ (threads'[t].pc = "acquire" => threads[t].pc = "acquire")
                /\ (threads[t].pc = "wait" => threads'[t].pc \in {"wait", "exit"})
                /\ (threads[t].pc \in {"while", "wait", "exit", "release"}
                      => (shown' = shown /\ pixels' = pixels))]_vars
    /\ Stopping ~> (effectThread = None \/ ~IsAlive(effectThread))

\* C21 witness: the stop event was set while the runner was writing a frame;
\* all its pixels are written and the flush is still to come.
C21_Witness ==
    /\ Stopping
    /\ threads[effectThread].pc = "setpix"
    /\ threads[effectThread].idx = PixelCount
    /\ ~threads[effectThread].final
    /\ threads[effectThread].step >= 1

\* C26: with the caller and the effect threads scheduled fairly every public
\* operation in progress eventually returns; the caller holds the pixel
\* lock only inside _apply_colors, never while it is in _stop_effect waiting
\* for the effect thread, and while it waits for the lock no effect thread
\* is alive to keep it.
C26_Progress ==
    /\ [](cpc \in {"set", "join", "clear", "sclear", "spawn", "fill"} => lock # Caller)
    /\ [](cpc = "acquire" => \A t \in Tids : ~IsAlive(t))
    /\ (cpc # "idle") ~> (cpc = "idle")

\* C26 witness: off(), speak() or mono() was called while an effect was
\* running; it has stopped the effect, written its frame and returned.
C26_Witness ==
    /\ cpc = "idle"
    /\ cop \in {"off", "speak", "mono"}
    /\ cres = "ok"
    /\ pre.run
    /\ lastFlusher = Caller
    /\ lock = Free

\* C25: the fill with COLOR_OFF that wakeup() hands to the event loop never
\* reaches the strip after a later effect has written its first frame: when
\* handle_event has returned from a call of speak() or disconnected(), or
\* the animation thread of the last think() has shown a frame, the last
\* show() was not the one of the deferred task.
C25_NoStaleWakeupWrite ==
    /\ (/\ ledPc = "idle"
        /\ ledRet = "True"
        /\ ledPixels
        /\ ledEvCalls \in {<< "speak" >>, << "disconnected" >>})
          => lastShow.by # "task"
    /\ (/\ ledPc = "idle"
        /\ ledRet = "True"
        /\ ledEvCalls = << "think" >>
        /\ animationThread # None
        /\ anims[animationThread].step >= 1)
          => lastShow.by # "task"

\* the animation threads alive
AnimsAlive == {t \in AnimIds : AnimAlive(t)}

\* C24: when the join of _stop_current_animation returns by its timeout with
\* the thread still alive, the warning is logged and the caller goes on;
\* the thread left behind observes the stop request at its next loop test
\* (it does not go on to draw another frame), and two animation threads
\* alive at once are always followed by at most one alive.
C24_JoinTimeoutTransient ==
    /\ [][(ledPc = "join" /\ ledPc' = "reset" /\ AnimAlive(animationThread)) => warned']_vars
    /\ [][\A t \in AnimIds :
            (AnimAlive(t) /\ t # animationThread /\ anims[t].pc = "while")
                => anims'[t].pc # "draw"]_vars
    /\ (Cardinality(AnimsAlive) >= 2) ~> (Cardinality(AnimsAlive) <= 1)

====
